---- MODULE Spec2Model ----
(***************************************************************************)
(* A model of src/Sudoku.py: the Sudoku class (constructor, is_completed,  *)
(* assert_validity, __deduce_block_values, __value_is_safe,                *)
(* __solve_recursively, solve) and its inner classes Subsection and Cell.  *)
(*                                                                         *)
(* Python lists are sequences; list order is kept because the code reads   *)
(* and sorts the lists it stores.  The two recursive methods are modelled  *)
(* with explicit call stacks, one action per run of statements between     *)
(* two changes of the grid.                                                *)
(***************************************************************************)
EXTENDS Integers, Sequences, FiniteSets, TLC

(***************************************************************************)
(* Program constants.                                                      *)
(***************************************************************************)
\* The side of the board: `assert len(board) == 9`, `range(9)`.
N == 9

Digits == 1..N

\* The initial __unknown_values of a Subsection.
AllValues == <<1, 2, 3, 4, 5, 6, 7, 8, 9>>

\* None, and a list held where None may be held.
None == [some |-> FALSE, list |-> <<>>]

Some(l) == [some |-> TRUE, list |-> l]

(***************************************************************************)
(* Geometry: the cell list is in reading order, cell k in row RowOf(k) and *)
(* column ColOf(k).                                                        *)
(***************************************************************************)
CellAt(r, c) == (r - 1) * N + c

RowOf(k) == ((k - 1) \div N) + 1

ColOf(k) == ((k - 1) % N) + 1

\* The if/elif chain of __unpack_vectors.
BlockId(row_id, col_id) ==
    CASE row_id \in {1,2,3} /\ col_id \in {1,2,3} -> 1
      [] row_id \in {1,2,3} /\ col_id \in {4,5,6} -> 2
      [] row_id \in {1,2,3} /\ col_id \in {7,8,9} -> 3
      [] row_id \in {4,5,6} /\ col_id \in {1,2,3} -> 4
      [] row_id \in {4,5,6} /\ col_id \in {4,5,6} -> 5
      [] row_id \in {4,5,6} /\ col_id \in {7,8,9} -> 6
      [] row_id \in {7,8,9} /\ col_id \in {1,2,3} -> 7
      [] row_id \in {7,8,9} /\ col_id \in {4,5,6} -> 8
      [] row_id \in {7,8,9} /\ col_id \in {7,8,9} -> 9

BlockOf(k) == BlockId(RowOf(k), ColOf(k))

AllCells == [k \in 1..(N * N) |-> k]

\* Subsection.__cells of each block, row and column, in the order add_cell
\* appended them (reading order).
BlockCells == [b \in 1..N |-> SelectSeq(AllCells, LAMBDA k : BlockOf(k) = b)]

RowCells == [r \in 1..N |-> SelectSeq(AllCells, LAMBDA k : RowOf(k) = r)]

ColCells == [c \in 1..N |-> SelectSeq(AllCells, LAMBDA k : ColOf(k) = c)]

(***************************************************************************)
(* List helpers, as Python computes them.                                  *)
(***************************************************************************)
Range(s) == {s[i] : i \in 1..Len(s)}

\* value in list
In(v, s) == \E i \in 1..Len(s) : s[i] = v

\* list.remove(v): drops the first occurrence.  A list without v is left as
\* it is here: the ValueError Python raises then is modelled where remove
\* is called without a test (AddCellRaises).
Remove(s, v) ==
    IF ~In(v, s) THEN s
    ELSE LET i == CHOOSE j \in 1..Len(s) : s[j] = v /\ \A h \in 1..(j - 1) : s[h] # v
         IN  [h \in 1..(Len(s) - 1) |-> IF h < i THEN s[h] ELSE s[h + 1]]

\* list.sort()
Sorted(s) == SortSeq(s, LAMBDA a, b : a < b)

(***************************************************************************)
(* The inputs.                                                             *)
(***************************************************************************)
\* The board of the constructor's docstring.
Example ==
    << <<3, 1, 0, 6, 0, 5, 4, 0, 0>>,
       <<6, 0, 4, 2, 1, 0, 0, 8, 3>>,
       <<9, 0, 0, 0, 3, 0, 0, 2, 0>>,
       <<2, 4, 7, 5, 6, 0, 0, 3, 0>>,
       <<8, 6, 0, 1, 0, 0, 0, 0, 0>>,
       <<0, 0, 5, 3, 0, 2, 6, 7, 0>>,
       <<0, 8, 0, 0, 0, 0, 0, 0, 4>>,
       <<0, 3, 0, 0, 0, 0, 7, 6, 2>>,
       <<5, 0, 0, 0, 7, 0, 8, 0, 9>> >>

\* The completion of Example: a complete valid grid the edited inputs start
\* from.
Solved ==
    << <<3, 1, 2, 6, 8, 5, 4, 9, 7>>,
       <<6, 7, 4, 2, 1, 9, 5, 8, 3>>,
       <<9, 5, 8, 7, 3, 4, 1, 2, 6>>,
       <<2, 4, 7, 5, 6, 8, 9, 3, 1>>,
       <<8, 6, 3, 1, 9, 7, 2, 4, 5>>,
       <<1, 9, 5, 3, 4, 2, 6, 7, 8>>,
       <<7, 8, 1, 9, 2, 6, 3, 5, 4>>,
       <<4, 3, 9, 8, 5, 1, 7, 6, 2>>,
       <<5, 2, 6, 4, 7, 3, 8, 1, 9>> >>

\* At most this many cells of Solved are changed in an edited input.
MaxEdits == 6

\* The cells an edited input may change: two rows of one stack of blocks
\* (rows 3 and 9, columns 4..6, holding 7 3 4 / 4 7 3) and two cells of
\* column 7.
EditCells == {<<3, 4>>, <<3, 5>>, <<3, 6>>, <<9, 4>>, <<9, 5>>, <<9, 6>>,
              <<1, 7>>, <<3, 7>>}

\* The cells that may also carry a wrong digit, and the digit.
WrongCells == {<<9, 6>>, <<3, 7>>}

\* The digit held by (3,6) and by (9,4): wrong at either cell of WrongCells.
WrongDigit == Solved[3][6]

Edits ==
    {e \in [EditCells -> {"keep", "blank", "wrong"}] :
        /\ \A p \in EditCells : e[p] = "wrong" => p \in WrongCells
        /\ Cardinality({p \in EditCells : e[p] # "keep"}) <= MaxEdits}

Edited(e) ==
    [r \in 1..N |-> [c \in 1..N |->
        IF <<r, c>> \in EditCells
        THEN CASE e[<<r, c>>] = "keep"  -> Solved[r][c]
               [] e[<<r, c>>] = "blank" -> 0
               [] e[<<r, c>>] = "wrong" -> WrongDigit
        ELSE Solved[r][c]]]

\* Boards that are not 9x9: a row dropped or added, a row shortened or
\* lengthened.
Misshapen(b) ==
    {SubSeq(b, 1, N - 1), Append(b, b[1]), <<>>}
    \cup {[b EXCEPT ![r] = SubSeq(b[r], 1, N - 1)] : r \in 1..N}
    \cup {[b EXCEPT ![r] = Append(b[r], 0)] : r \in 1..N}

\* Whether two cells share a row, a column or a block.
SameUnit(p, q) ==
    RowOf(p) = RowOf(q) \/ ColOf(p) = ColOf(q) \/ BlockOf(p) = BlockOf(q)

\* The digits of the two-given boards.
PairDigits == {1, 9}

\* The board whose only givens are the digit d at the cells p and q.
TwoGivens(p, q, d) ==
    [r \in 1..N |-> [c \in 1..N |->
        IF CellAt(r, c) \in {p, q} THEN d ELSE 0]]

\* Every board with the same digit given twice in one unit and no other
\* given.
PairBoards ==
    {TwoGivens(p, q, d) : <<p, q, d>> \in
        {t \in (1..(N * N)) \X (1..(N * N)) \X PairDigits :
            t[1] < t[2] /\ SameUnit(t[1], t[2])}}

Inputs ==
    {Example} \cup {Edited(e) : e \in Edits}
    \cup Misshapen(Example) \cup Misshapen(Solved)
    \cup PairBoards

(***************************************************************************)
(* The state.                                                              *)
(*   board          the constructor's argument                             *)
(*   pc             where the caller and solve() stand                     *)
(*   raised_by      the statement that raised, "" while nothing has        *)
(*   rows, columns, blocks                                                 *)
(*                  Sudoku.__rows, __columns, __blocks: per Subsection its *)
(*                  __known_values and __unknown_values (<<>> while the    *)
(*                  object does not exist)                                 *)
(*   cells          Sudoku.__cells: per Cell its __value, its              *)
(*                  __possible_values (mangled_possible_values) and the    *)
(*                  attribute possible_values that set_possible_values     *)
(*                  writes                                                 *)
(*   sweep_block    solve(): the index of `for block in self.__blocks`     *)
(*   initial_state  solve(): repr(self) taken at the top of the loop body  *)
(*   dstack         the frames of __deduce_block_values, innermost last    *)
(*   unknown_cells  solve(): the list handed to __solve_recursively        *)
(*   sstack         the frames of __solve_recursively, innermost last      *)
(*   search_result  what the last top-level __solve_recursively returned   *)
(*                  ("none" before any), which solve() discards            *)
(***************************************************************************)
VARIABLES board, pc, raised_by, rows, columns, blocks, cells, sweep_block,
          initial_state, dstack, unknown_cells, sstack, search_result

vars == <<board, pc, raised_by, rows, columns, blocks, cells, sweep_block,
          initial_state, dstack, unknown_cells, sstack, search_result>>

grid == <<rows, columns, blocks, cells>>

solve_locals == <<sweep_block, initial_state, dstack, unknown_cells, sstack,
                  search_result>>

(***************************************************************************)
(* Subsection and Cell.                                                    *)
(***************************************************************************)
\* Subsection.__init__
NewSubsection == [known_values |-> <<>>, unknown_values |-> AllValues]

\* Cell.__init__, before the three add_cell calls.
NewCell(value) ==
    [value |-> value, mangled_possible_values |-> None, possible_values |-> None]

\* add_cell with the removal guarded by `if value in ...`: it never raises.
AddCellNeverRaises(u, value) == FALSE

\* Subsection.add_cell raises ValueError when list.remove finds no value.
AddCellRaises(u, value) == value # 0 /\ ~In(value, u.unknown_values)

\* Subsection.add_cell, when it does not raise.
AddCell(u, value) ==
    IF value # 0
    THEN [known_values |-> Append(u.known_values, value),
          unknown_values |-> Remove(u.unknown_values, value)]
    ELSE u

\* remove_known_value that leaves the value among the known values.
RemoveKnownValueKeepsKnown(u, value) ==
    [unknown_values |-> Append(u.unknown_values, value),
     known_values |-> u.known_values]

\* Subsection.remove_known_value
RemoveKnownValue(u, value) ==
    [unknown_values |-> Append(u.unknown_values, value),
     known_values |-> IF In(value, u.known_values)
                      THEN Remove(u.known_values, value)
                      ELSE u.known_values]

\* add_known_value that leaves the value among the unknown values.
AddKnownValueKeepsUnknown(u, value) ==
    [known_values |-> Append(u.known_values, value),
     unknown_values |-> u.unknown_values]

\* add_known_value that forgets to append the value.
AddKnownValueNoAppend(u, value) ==
    [known_values |-> u.known_values,
     unknown_values |-> IF In(value, u.unknown_values)
                        THEN Remove(u.unknown_values, value)
                        ELSE u.unknown_values]

\* Subsection.add_known_value
AddKnownValue(u, value) ==
    [known_values |-> Append(u.known_values, value),
     unknown_values |-> IF In(value, u.unknown_values)
                        THEN Remove(u.unknown_values, value)
                        ELSE u.unknown_values]

\* Cell.get_possible_values reads __possible_values.
GetPossibleValues(c) == c.mangled_possible_values

\* Cell.set_possible_values writes the attribute possible_values, not
\* __possible_values.
SetPossibleValues(c, values) == [c EXCEPT !.possible_values = Some(values)]

\* Cell.set_value
SetValue(c, value) ==
    [c EXCEPT !.value = value, !.mangled_possible_values = None]

(***************************************************************************)
(* Sudoku.__init__ and __unpack_vectors.                                   *)
(***************************************************************************)
\* ShapeAsserted without the loop over the rows.
ShapeAssertedOuterOnly(b) == Len(b) = N

\* The two assertions of __init__.
ShapeAsserted(b) == Len(b) = N /\ \A i \in 1..Len(b) : Len(b[i]) = N

\* The statement of __init__ that raises AssertionError on b.
FailedAssertion(b) ==
    IF Len(b) # N THEN "assert len(board) == 9" ELSE "assert len(row) == 9"

\* One iteration of `for num in row`: Cell(...) and its add_cell calls on
\* the block, the row and the column, in that order.  g.raised names the
\* Subsection whose add_cell raised.
UnpackCell(g, k, num) ==
    LET b == BlockOf(k)
        r == RowOf(k)
        c == ColOf(k)
    IN  IF AddCellRaises(g.blocks[b], num) THEN [g EXCEPT !.raised = "block.add_cell"]
        ELSE IF AddCellRaises(g.rows[r], num) THEN [g EXCEPT !.raised = "row.add_cell"]
        ELSE IF AddCellRaises(g.columns[c], num) THEN [g EXCEPT !.raised = "col.add_cell"]
        ELSE [rows    |-> [g.rows EXCEPT ![r] = AddCell(@, num)],
              columns |-> [g.columns EXCEPT ![c] = AddCell(@, num)],
              blocks  |-> [g.blocks EXCEPT ![b] = AddCell(@, num)],
              cells   |-> Append(g.cells, NewCell(num)),
              raised  |-> ""]

RECURSIVE UnpackRow(_, _, _, _)
\* The loop `for num in row` over row r, from the column c on.
UnpackRow(b, g, r, c) ==
    IF c > N \/ g.raised # "" THEN g
    ELSE UnpackRow(b, UnpackCell(g, CellAt(r, c), b[r][c]), r, c + 1)

RECURSIVE UnpackFrom(_, _, _)
\* The loop `for row in board` from the row r on.
UnpackFrom(b, g, r) ==
    IF r > N \/ g.raised # "" THEN g
    ELSE UnpackFrom(b, UnpackRow(b, g, r, 1), r + 1)

\* Sudoku.__unpack_vectors
UnpackVectors(b) ==
    UnpackFrom(b,
               [rows    |-> [i \in 1..N |-> NewSubsection],
                columns |-> [i \in 1..N |-> NewSubsection],
                blocks  |-> [i \in 1..N |-> NewSubsection],
                cells   |-> <<>>,
                raised  |-> ""],
               1)

Init ==
    /\ board \in Inputs
    /\ pc = "new"
    /\ raised_by = ""
    /\ rows = <<>>
    /\ columns = <<>>
    /\ blocks = <<>>
    /\ cells = <<>>
    /\ sweep_block = 0
    /\ initial_state = <<>>
    /\ dstack = <<>>
    /\ unknown_cells = <<>>
    /\ sstack = <<>>
    /\ search_result = "none"

\* Sudoku(board), up to the assertions: an AssertionError leaves no object.
ConstructAssert ==
    /\ pc = "new"
    /\ IF ShapeAsserted(board)
       THEN pc' = "unpack" /\ raised_by' = raised_by
       ELSE pc' = "AssertionError" /\ raised_by' = FailedAssertion(board)
    /\ UNCHANGED <<board, grid, solve_locals>>

\* Sudoku(board), from __unpack_vectors on: a ValueError out of add_cell
\* leaves no object.
ConstructUnpack ==
    /\ pc = "unpack"
    /\ LET g == UnpackVectors(board)
       IN  IF g.raised = ""
           THEN /\ rows' = g.rows
                /\ columns' = g.columns
                /\ blocks' = g.blocks
                /\ cells' = g.cells
                /\ pc' = "ready"
                /\ raised_by' = raised_by
           ELSE /\ pc' = "ValueError"
                /\ raised_by' = g.raised
                /\ UNCHANGED grid
    /\ UNCHANGED <<board, solve_locals>>

(***************************************************************************)
(* is_completed, assert_validity, __repr__, __value_is_safe.               *)
(***************************************************************************)
\* str(value), with "_" for the missing value (Vector.__str__).
Str(value) == IF value = 0 THEN "_" ELSE ToString(value)

\* Sudoku.__repr__: the header is the same in every state and is left out;
\* what varies is, row by row, the text of each cell of the row.
Repr(cs) == [r \in 1..N |-> [i \in 1..N |-> Str(cs[RowCells[r][i]].value)]]

\* Sudoku.is_completed looks at the rows and the columns only.
IsCompleted(rs, cols) ==
    /\ \A r \in 1..N : Len(rs[r].known_values) = N
    /\ \A c \in 1..N : Len(cols[c].known_values) = N

\* The list assert_validity compares the sorted known values with.
ValidValues == <<1, 2, 3, 4, 5, 6, 7, 8, 9>>

\* assert_validity on the Subsections in its order (rows, columns, blocks):
\* get_known_values returns the stored list itself, so values.sort() sorts
\* the Subsection's own list; the first list that differs from ValidValues
\* raises InvalidGameSolution and the later ones are not reached.
\* FirstInvalid is the index of that list, 0 when there is none.
FirstInvalid(areas) ==
    IF \E i \in 1..Len(areas) : Sorted(areas[i].known_values) # ValidValues
    THEN CHOOSE i \in 1..Len(areas) :
            /\ Sorted(areas[i].known_values) # ValidValues
            /\ \A j \in 1..(i - 1) : Sorted(areas[j].known_values) = ValidValues
    ELSE 0

\* assert_validity that sorts and never raises.
AssertValidityNeverRaises(areas) ==
    [areas |-> [i \in 1..Len(areas) |->
                  [areas[i] EXCEPT !.known_values = Sorted(@)]],
     raised |-> FALSE]

AssertValidity(areas) ==
    LET bad == FirstInvalid(areas)
    IN  [areas |-> [i \in 1..Len(areas) |->
                      IF bad = 0 \/ i <= bad
                      THEN [areas[i] EXCEPT !.known_values = Sorted(@)]
                      ELSE areas[i]],
         raised |-> bad # 0]

\* Sudoku.__value_is_safe
ValueIsSafe(rs, cols, bs, k, value) ==
    /\ ~In(value, rs[RowOf(k)].known_values)
    /\ ~In(value, cols[ColOf(k)].known_values)
    /\ ~In(value, bs[BlockOf(k)].known_values)

(***************************************************************************)
(* __deduce_block_values.  A frame is [ci, vi, possible_values]: the call  *)
(* stands in `for cell in block.get_cells()` at the cell of index ci and,  *)
(* when vi is 1 or 2, in `for vector in vectors` at the row (1) or the     *)
(* column (2) with the list possible_values; vi = 0 is the head of the     *)
(* cell loop.  The block is blocks[sweep_block] in every frame.            *)
(***************************************************************************)
RECURSIVE RemoveKnown(_, _, _)
\* for existing_value in vector.get_known_values():
\*     if existing_value in possible_values: possible_values.remove(...)
\* from the known value of index i on.  (The list after one removal is
\* bound as a value before the next, so that it is computed once.)
RemoveKnown(possible_values, known_values, i) ==
    IF i > Len(known_values) THEN possible_values
    ELSE LET after == IF In(known_values[i], possible_values)
                      THEN Remove(possible_values, known_values[i])
                      ELSE possible_values
         IN  CHOOSE r \in {RemoveKnown(pv, known_values, i + 1) : pv \in {after}} : TRUE

\* A call of __deduce_block_values(block): it returns at once when the
\* block has no unknown values.
DeduceCall(stack, b) ==
    IF Len(b.unknown_values) # 0
    THEN Append(stack, [ci |-> 1, vi |-> 0, possible_values |-> <<>>])
    ELSE stack

RECURSIVE DeduceSettleAnyCell(_, _, _, _)
\* DeduceSettle without `if cell.get_value() == 0`: every cell of the
\* block, given or not, starts with a copy of the block's unknown values.
DeduceSettleAnyCell(stack, cs, bs, bi) ==
    IF stack = <<>> THEN <<>>
    ELSE LET top  == stack[Len(stack)]
             rest == SubSeq(stack, 1, Len(stack) - 1)
         IN  IF top.vi # 0 THEN stack
             ELSE IF top.ci <= N
                  THEN Append(rest, [ci |-> top.ci, vi |-> 1,
                                     possible_values |-> bs[bi].unknown_values])
                  ELSE CHOOSE r \in {DeduceSettleAnyCell(st, cs, bs, bi) :
                                        st \in {rest}} : TRUE

RECURSIVE DeduceSettle(_, _, _, _)
\* Runs the innermost call up to its next `for vector in vectors` step:
\* cells that hold a value are passed over, a call whose cell loop is over
\* returns to its caller, and a cell with the value 0 starts with a copy
\* of the block's unknown values.  <<>> when every call has returned.
\* bs are the blocks and bi the index of the block of the calls.  (The
\* stack after one such step is bound as a value before the next.)
DeduceSettle(stack, cs, bs, bi) ==
    IF stack = <<>> THEN <<>>
    ELSE LET top  == stack[Len(stack)]
             rest == SubSeq(stack, 1, Len(stack) - 1)
         IN  IF top.vi # 0 THEN stack
             ELSE IF top.ci <= N /\ cs[BlockCells[bi][top.ci]].value = 0
                  THEN Append(rest, [ci |-> top.ci, vi |-> 1,
                                     possible_values |-> bs[bi].unknown_values])
                  ELSE LET next == IF top.ci > N THEN rest
                                   ELSE Append(rest, [top EXCEPT !.ci = @ + 1])
                       IN  CHOOSE r \in {DeduceSettle(s, cs, bs, bi) : s \in {next}} : TRUE

\* Where a frame goes on after the step for vector vi.
DeduceAdvance(top, possible_values) ==
    IF top.vi = 1
    THEN [ci |-> top.ci, vi |-> 2, possible_values |-> possible_values]
    ELSE [ci |-> top.ci + 1, vi |-> 0, possible_values |-> <<>>]

(***************************************************************************)
(* __solve_recursively.  A frame is [index, num, entry, placed]: the call  *)
(* for cells[index] (index from 1 here, from 0 in the code) stands in      *)
(* `for num in range(1, 10)` at num, 10 when the loop is over and the call *)
(* returns False.  entry and placed are not program state: they record     *)
(* the grid as the call found it and how many values the call has placed.  *)
(***************************************************************************)
\* The grid as sets: every cell's value, every Subsection's known and
\* unknown values.
AsSets(areas) ==
    [i \in 1..Len(areas) |-> [known |-> Range(areas[i].known_values),
                              unknown |-> Range(areas[i].unknown_values)]]

Snapshot(rs, cols, bs, cs) ==
    [values |-> [k \in 1..Len(cs) |-> cs[k].value],
     areas  |-> AsSets(rs \o cols \o bs)]

\* The first num >= from that `if self.__value_is_safe(cell, num)` lets
\* through, 10 when range(1, 10) has none.
NextSafe(rs, cols, bs, k, from) ==
    IF \E num \in from..N : ValueIsSafe(rs, cols, bs, k, num)
    THEN CHOOSE num \in from..N :
            /\ ValueIsSafe(rs, cols, bs, k, num)
            /\ \A m \in from..(num - 1) : ~ValueIsSafe(rs, cols, bs, k, m)
    ELSE N + 1

RECURSIVE SearchCall(_, _, _, _, _, _, _)
\* A call __solve_recursively(cells, index) up to its first safe num:
\* cells[index] raising IndexError returns True (the stack is dropped, since
\* every caller returns True in turn); `len(cells) == index` is never true
\* where cells[index] exists; an occupied, safe cell passes the call on to
\* index + 1.
SearchCall(stack, ucells, index, rs, cols, bs, cs) ==
    IF index > Len(ucells) THEN <<>>
    ELSE LET k == ucells[index]
         IN  IF cs[k].value # 0 /\ ValueIsSafe(rs, cols, bs, k, cs[k].value)
             THEN SearchCall(stack, ucells, index + 1, rs, cols, bs, cs)
             ELSE Append(stack, [index |-> index,
                                 num   |-> NextSafe(rs, cols, bs, k, 1),
                                 entry |-> Snapshot(rs, cols, bs, cs),
                                 placed |-> 0])

\* unknown_cells of solve(): the cells with the value 0, in order.
UnknownCells(cs) == SelectSeq(AllCells, LAMBDA k : cs[k].value = 0)

(***************************************************************************)
(* solve().                                                                *)
(***************************************************************************)
RECURSIVE SweepFrom(_, _, _)
\* `for block in self.__blocks` from the block of index bi on, up to the
\* first `for vector in vectors` step of a __deduce_block_values call:
\* [block, stack], with block = N + 1 when the loop is over.
SweepFrom(bi, cs, bs) ==
    IF bi > N THEN [block |-> N + 1, stack |-> <<>>]
    ELSE LET stack == DeduceSettle(DeduceCall(<<>>, bs[bi]), cs, bs, bi)
         IN  IF stack # <<>> THEN [block |-> bi, stack |-> stack]
             ELSE SweepFrom(bi + 1, cs, bs)

\* The caller calls solve() on the object it constructed.
CallSolve ==
    /\ pc = "ready"
    /\ pc' = "while"
    /\ UNCHANGED <<board, raised_by, grid, solve_locals>>

\* `while not self.is_completed()`, and in the body initial_state and the
\* sweep over the blocks up to its first step.
LoopTest ==
    /\ pc = "while"
    /\ IF IsCompleted(rows, columns)
       THEN /\ pc' = "validate"
            /\ UNCHANGED <<sweep_block, initial_state, dstack>>
       ELSE LET sw == SweepFrom(1, cells, blocks)
            IN  /\ initial_state' = Repr(cells)
                /\ sweep_block' = sw.block
                /\ dstack' = sw.stack
                /\ pc' = IF sw.block > N THEN "swept" ELSE "deduce"
    /\ UNCHANGED <<board, raised_by, grid, unknown_cells, sstack, search_result>>

\* The innermost __deduce_block_values frame and what its step reads.
DTop == dstack[Len(dstack)]

DRest == SubSeq(dstack, 1, Len(dstack) - 1)

DCell == BlockCells[sweep_block][DTop.ci]

DVector == IF DTop.vi = 1 THEN rows[RowOf(DCell)] ELSE columns[ColOf(DCell)]

\* possible_values after the removals of this vector.
DPossible == RemoveKnown(DTop.possible_values, DVector.known_values, 1)

\* After a step of the innermost call left the stack st: the sweep goes on
\* with the next block once every call has returned.
DeduceContinue(st, cs, bs) ==
    IF st # <<>>
    THEN /\ dstack' = st
         /\ UNCHANGED <<sweep_block, pc>>
    ELSE \E sw \in {SweepFrom(sweep_block + 1, cs, bs)} :
            /\ sweep_block' = sw.block
            /\ dstack' = sw.stack
            /\ pc' = IF sw.block > N THEN "swept" ELSE "deduce"

\* `if len(possible_values) == 1`: set the value, add it to the block, the
\* row and the column, and call __deduce_block_values(block) again.  The
\* test stands inside `for vector in vectors`, so it is made after the row
\* alone and again after the column.  In the column's step the list is the
\* one set_possible_values stored in the row's step, so the attribute
\* possible_values holds what is left of it.
DeduceAssign ==
    /\ pc = "deduce"
    /\ \E possible_values \in {DPossible} :
         /\ Len(possible_values) = 1
         /\ \E value \in {possible_values[1]}, k \in {DCell} :
              \E cs1 \in {[cells EXCEPT ![k] =
                             SetValue(IF DTop.vi = 2
                                      THEN [@ EXCEPT !.possible_values =
                                                        Some(possible_values)]
                                      ELSE @, value)]},
                 bs1 \in {[blocks EXCEPT ![sweep_block] = AddKnownValue(@, value)]} :
                \E st \in {DeduceSettle(
                               DeduceCall(Append(DRest,
                                                 DeduceAdvance(DTop, possible_values)),
                                          bs1[sweep_block]),
                               cs1, bs1, sweep_block)} :
                   /\ cells' = cs1
                   /\ blocks' = bs1
                   /\ rows' = [rows EXCEPT ![RowOf(k)] = AddKnownValue(@, value)]
                   /\ columns' = [columns EXCEPT ![ColOf(k)] = AddKnownValue(@, value)]
                   /\ DeduceContinue(st, cs1, bs1)
    /\ UNCHANGED <<board, raised_by, initial_state, unknown_cells, sstack,
                   search_result>>

\* `else: cell.set_possible_values(possible_values)`
DeduceStore ==
    /\ pc = "deduce"
    /\ \E possible_values \in {DPossible} :
         /\ Len(possible_values) # 1
         /\ \E cs1 \in {[cells EXCEPT ![DCell] =
                            SetPossibleValues(@, possible_values)]} :
              \E st \in {DeduceSettle(Append(DRest,
                                             DeduceAdvance(DTop, possible_values)),
                                      cs1, blocks, sweep_block)} :
                 /\ cells' = cs1
                 /\ DeduceContinue(st, cs1, blocks)
    /\ UNCHANGED <<board, raised_by, rows, columns, blocks, initial_state,
                   unknown_cells, sstack, search_result>>

\* `if initial_state == current_state`: collect the unknown cells and call
\* __solve_recursively(unknown_cells, 0), whose result is dropped; either
\* way the while loop goes round.
Compare ==
    /\ pc = "swept"
    /\ IF initial_state = Repr(cells)
       THEN LET ucells == UnknownCells(cells)
                st     == SearchCall(<<>>, ucells, 1, rows, columns, blocks, cells)
            IN  /\ unknown_cells' = ucells
                /\ sstack' = st
                /\ IF st = <<>>
                   THEN pc' = "while" /\ search_result' = "True"
                   ELSE pc' = "search" /\ search_result' = search_result
       ELSE /\ pc' = "while"
            /\ UNCHANGED <<unknown_cells, sstack, search_result>>
    /\ UNCHANGED <<board, raised_by, grid, sweep_block, initial_state, dstack>>

\* The innermost __solve_recursively frame.
STop == sstack[Len(sstack)]

SRest == SubSeq(sstack, 1, Len(sstack) - 1)

\* `if self.__value_is_safe(cell, num)`: set the value, add it to the
\* block, the row and the column, and call for index + 1; a True from it is
\* returned by every caller.
SearchPlace ==
    /\ pc = "search"
    /\ STop.num <= N
    /\ LET k     == unknown_cells[STop.index]
           num   == STop.num
           cs1   == [cells EXCEPT ![k] = SetValue(@, num)]
           bs1   == [blocks EXCEPT ![BlockOf(k)] = AddKnownValue(@, num)]
           rs1   == [rows EXCEPT ![RowOf(k)] = AddKnownValue(@, num)]
           cols1 == [columns EXCEPT ![ColOf(k)] = AddKnownValue(@, num)]
           st    == SearchCall(Append(SRest, [STop EXCEPT !.placed = @ + 1]),
                               unknown_cells, STop.index + 1,
                               rs1, cols1, bs1, cs1)
       IN  /\ ValueIsSafe(rows, columns, blocks, k, num)
           /\ cells' = cs1
           /\ blocks' = bs1
           /\ rows' = rs1
           /\ columns' = cols1
           /\ sstack' = st
           /\ IF st = <<>>
              THEN pc' = "while" /\ search_result' = "True"
              ELSE pc' = "search" /\ search_result' = search_result
    /\ UNCHANGED <<board, raised_by, sweep_block, initial_state, dstack,
                   unknown_cells>>

\* `return False` of a nested call, and in its caller the undo of the
\* caller's num (value 0, remove_known_value on block, row and column) and
\* the rest of `for num in range(1, 10)` up to the next safe num.
SearchBacktrack ==
    /\ pc = "search"
    /\ STop.num > N
    /\ SRest # <<>>
    /\ LET caller == SRest[Len(SRest)]
           k      == unknown_cells[caller.index]
           num    == caller.num
           cs1    == [cells EXCEPT ![k] = SetValue(@, 0)]
           bs1    == [blocks EXCEPT ![BlockOf(k)] = RemoveKnownValue(@, num)]
           rs1    == [rows EXCEPT ![RowOf(k)] = RemoveKnownValue(@, num)]
           cols1  == [columns EXCEPT ![ColOf(k)] = RemoveKnownValue(@, num)]
       IN  /\ cells' = cs1
           /\ blocks' = bs1
           /\ rows' = rs1
           /\ columns' = cols1
           /\ sstack' = [SRest EXCEPT ![Len(SRest)].num =
                            NextSafe(rs1, cols1, bs1, k, num + 1)]
    /\ UNCHANGED <<board, pc, raised_by, sweep_block, initial_state, dstack,
                   unknown_cells, search_result>>

\* `return False` of the call solve() made: solve() drops it and goes back
\* to `while not self.is_completed()`.
SearchExhausted ==
    /\ pc = "search"
    /\ STop.num > N
    /\ SRest = <<>>
    /\ sstack' = <<>>
    /\ search_result' = "False"
    /\ pc' = "while"
    /\ UNCHANGED <<board, raised_by, grid, sweep_block, initial_state, dstack,
                   unknown_cells>>

\* The grid after assert_validity() on it.
Validated ==
    LET v == AssertValidity(rows \o columns \o blocks)
    IN  [rows    |-> SubSeq(v.areas, 1, N),
         columns |-> SubSeq(v.areas, N + 1, 2 * N),
         blocks  |-> SubSeq(v.areas, 2 * N + 1, 3 * N),
         raised  |-> v.raised]

\* `self.assert_validity()` at the end of solve(), and the prints.
Validate ==
    /\ pc = "validate"
    /\ rows' = Validated.rows
    /\ columns' = Validated.columns
    /\ blocks' = Validated.blocks
    /\ IF Validated.raised
       THEN pc' = "InvalidGameSolution" /\ raised_by' = "assert_validity"
       ELSE pc' = "returned" /\ raised_by' = raised_by
    /\ UNCHANGED <<board, cells, solve_locals>>

\* The caller calls assert_validity() again on the grid solve() returned.
CallAssertValidity ==
    /\ pc = "returned"
    /\ rows' = Validated.rows
    /\ columns' = Validated.columns
    /\ blocks' = Validated.blocks
    /\ raised_by' = IF Validated.raised THEN "assert_validity" ELSE raised_by
    /\ UNCHANGED <<board, pc, cells, solve_locals>>

\* The steps of solve().
SolveStep ==
    \/ LoopTest
    \/ DeduceAssign
    \/ DeduceStore
    \/ Compare
    \/ SearchPlace
    \/ SearchBacktrack
    \/ SearchExhausted
    \/ Validate

Next ==
    \/ ConstructAssert
    \/ ConstructUnpack
    \/ CallSolve
    \/ LoopTest
    \/ DeduceAssign
    \/ DeduceStore
    \/ Compare
    \/ SearchPlace
    \/ SearchBacktrack
    \/ SearchExhausted
    \/ Validate
    \/ CallAssertValidity

Spec == Init /\ [][Next]_vars

\* solve() runs to its end once called: the program is sequential and
\* nothing suspends it.
FairSpec == Spec /\ WF_vars(SolveStep)

(***************************************************************************)
(* What the claims speak of, stated on the board and on the cells alone.   *)
(***************************************************************************)
\* The cells of each of the 27 units.
Units ==
    {Range(RowCells[i]) : i \in 1..N} \cup {Range(ColCells[i]) : i \in 1..N}
    \cup {Range(BlockCells[i]) : i \in 1..N}

\* The cells that share a unit with cell k.
Peers == [k \in 1..(N * N) |-> {j \in 1..(N * N) : j # k /\ SameUnit(j, k)}]

\* A board of 9 rows of 9 entries.
NineByNine(b) == Len(b) = N /\ \A r \in 1..Len(b) : Len(b[r]) = N

\* A 9x9 board as the list of its 81 entries in reading order.
Flat(b) == [k \in 1..(N * N) |-> b[RowOf(k)][ColOf(k)]]

\* Two cells of one unit carry the same non-zero given.
DuplicateGivens(b) ==
    LET v == Flat(b)
    IN  \E k \in 1..(N * N) : v[k] # 0 /\ \E j \in Peers[k] : v[j] = v[k]

\* The values of a list of 81 entries are a solved Sudoku: no 0, and every
\* digit exactly once in every unit.
CompleteAndValid(v) ==
    /\ \A k \in 1..(N * N) : v[k] \in Digits
    /\ \A u \in Units : \A d \in Digits : Cardinality({k \in u : v[k] = d}) = 1

RECURSIVE RowFills(_, _, _)
\* Every way to fill the empty entries of row r of v, from the column c
\* on, without putting a digit twice into a unit.
RowFills(v, r, c) ==
    IF c > N THEN {v}
    ELSE LET k == CellAt(r, c)
         IN  IF v[k] # 0 THEN RowFills(v, r, c + 1)
             ELSE UNION {RowFills(w, r, c + 1) :
                           w \in {[v EXCEPT ![k] = d] :
                                     d \in {e \in Digits :
                                              \A j \in Peers[k] : v[j] # e}}}

RECURSIVE Completable(_, _)
\* The entries v, with no duplicate among them, can be completed from row
\* r on without putting a digit twice into a unit.
Completable(v, r) ==
    IF r > N THEN TRUE
    ELSE \E w \in RowFills(v, r, 1) : Completable(w, r + 1)

\* The input has a valid completion.
Solvable(b) ==
    /\ NineByNine(b)
    /\ \A k \in 1..(N * N) : Flat(b)[k] \in 0..N
    /\ ~DuplicateGivens(b)
    /\ \E v \in {Flat(b)} : Completable(v, 1)

\* The values the cells hold.
Values == [k \in 1..Len(cells) |-> cells[k].value]

\* All Subsections of the object: rows, columns, blocks.
Areas == rows \o columns \o blocks

(***************************************************************************)
(* C1: whenever solve() returns normally the grid is complete and valid:   *)
(* no cell holds 0 and every row, column and block holds each digit 1..9   *)
(* exactly once.                                                           *)
(***************************************************************************)
C1_ReturnedGridIsSolved ==
    pc = "returned" => Len(cells) = N * N /\ CompleteAndValid(Values)

\* solve() returned on an input that had unknown cells, after a search.
C1_Witness ==
    /\ pc = "returned"
    /\ search_result = "True"
    /\ \E k \in 1..(N * N) : Flat(board)[k] = 0

(***************************************************************************)
(* C2: for a solvable input solve() terminates: once solve() is running,   *)
(* it reaches its normal return (the loop has ended and the validator has  *)
(* passed).                                                                *)
(***************************************************************************)
C2_SolvableTerminates ==
    (pc = "while" /\ Solvable(board)) ~> (pc = "returned")

\* solve() returned on a solvable input that needed the search.
C2_Witness ==
    /\ pc = "returned"
    /\ search_result = "True"
    /\ Solvable(board)

(***************************************************************************)
(* C3: once the search has exhausted every branch at the top level and     *)
(* reported failure, the solve loop stops: no further deduction sweep and  *)
(* no further search is started.                                           *)
(***************************************************************************)
C3_FailureStopsTheLoop ==
    search_result = "False" => pc \notin {"deduce", "swept", "search"}

(***************************************************************************)
(* C4: an input with the same non-zero given twice in a row, a column or a *)
(* block fails in the constructor: no object is produced and solve() never *)
(* runs on it.                                                             *)
(***************************************************************************)
C4_DuplicateGivensRejected ==
    (NineByNine(board) /\ DuplicateGivens(board)) =>
        /\ pc \in {"new", "unpack", "ValueError"}
        /\ rows = <<>> /\ columns = <<>> /\ blocks = <<>> /\ cells = <<>>

\* The constructor failed on two equal givens that share a block but
\* neither a row nor a column.
C4_Witness ==
    /\ pc = "ValueError"
    /\ raised_by = "block.add_cell"
    /\ LET v == Flat(board)
       IN  \A k \in 1..(N * N) : \A j \in Peers[k] :
              (v[k] # 0 /\ v[j] = v[k]) => RowOf(j) # RowOf(k) /\ ColOf(j) # ColOf(k)

(***************************************************************************)
(* C5: an input whose outer length is not 9, or with a row whose length is *)
(* not 9, is rejected before any row, column, block or cell is created.    *)
(***************************************************************************)
C5_MisshapenRejectedFirst ==
    ~NineByNine(board) =>
        /\ pc \in {"new", "AssertionError"}
        /\ rows = <<>> /\ columns = <<>> /\ blocks = <<>> /\ cells = <<>>

\* The constructor rejected a board of 9 rows, one of them not of length 9.
C5_Witness ==
    /\ pc = "AssertionError"
    /\ raised_by = "assert len(row) == 9"
    /\ Len(board) = N
    /\ rows = <<>>

(***************************************************************************)
(* C6: assert_validity() is a pure check: called on a grid in which every  *)
(* row, column and block holds exactly the digits 1..9, it raises no error *)
(* and leaves every cell and every stored list of known and unknown values *)
(* as it was, order included.                                              *)
(***************************************************************************)
\* Every Subsection's known values are exactly the digits 1..9, once each.
EveryAreaHoldsTheDigits ==
    /\ Len(Areas) = 3 * N
    /\ \A i \in 1..Len(Areas) :
          /\ Len(Areas[i].known_values) = N
          /\ Range(Areas[i].known_values) = Digits

C6_AssertValidityIsPure ==
    [][(pc \in {"validate", "returned"} /\ EveryAreaHoldsTheDigits)
          => (grid' = grid /\ pc' # "InvalidGameSolution")]_vars

(***************************************************************************)
(* C7: in every state reachable during solve(), for every input the        *)
(* constructor accepts, no row's, column's or block's known_values holds   *)
(* the same digit twice.                                                   *)
(***************************************************************************)
NoDuplicate(l) == \A i, j \in 1..Len(l) : l[i] = l[j] => i = j

C7_KnownValuesNeverRepeat ==
    \A i \in 1..Len(Areas) : NoDuplicate(Areas[i].known_values)

(***************************************************************************)
(* C8: whenever a call of __solve_recursively returns False, every cell's  *)
(* value and every row's, column's and block's known and unknown values,   *)
(* as sets, are what they were when the call was entered.                  *)
(***************************************************************************)
C8_FailedCallRestoresTheGrid ==
    (pc = "search" /\ STop.num > N) =>
        Snapshot(rows, columns, blocks, cells) = STop.entry

\* A call that placed a value and had it undone now returns False.
C8_Witness ==
    /\ pc = "search"
    /\ STop.num > N
    /\ STop.placed > 0

(***************************************************************************)
(* C9: when a deduction pass leaves more than one candidate for an unknown *)
(* cell, the list is stored on the cell so that get_possible_values()      *)
(* returns it (and not None) until the cell is given a value.              *)
(***************************************************************************)
C9_StoredCandidatesAreReadBack ==
    \A k \in 1..Len(cells) :
        (/\ cells[k].value = 0
         /\ cells[k].possible_values # None
         /\ Len(cells[k].possible_values.list) > 1)
            => GetPossibleValues(cells[k]) = cells[k].possible_values

(***************************************************************************)
(* C10: for every row, column and block, in every state between two        *)
(* operations, the known values and the unknown values are disjoint as     *)
(* sets and together are exactly 1..9.                                     *)
(***************************************************************************)
C10_KnownAndUnknownPartition ==
    \A i \in 1..Len(Areas) :
        /\ Range(Areas[i].known_values) \cap Range(Areas[i].unknown_values) = {}
        /\ Range(Areas[i].known_values) \cup Range(Areas[i].unknown_values) = Digits

\* The search has undone a value in the innermost call, after the deducer
\* had assigned one.
C10_Witness ==
    /\ pc = "search"
    /\ STop.placed > 0
    /\ cells[unknown_cells[STop.index]].value = 0
    /\ \E k \in 1..(N * N) : Flat(board)[k] = 0 /\ cells[k].value # 0

(***************************************************************************)
(* C11: the givens are never changed: every cell that holds a non-zero     *)
(* value in the input holds that value in every state of the object, so a  *)
(* grid solve() returns is a completion of the input.                      *)
(***************************************************************************)
C11_GivensAreKept ==
    \A k \in 1..Len(cells) :
        board[RowOf(k)][ColOf(k)] # 0 => cells[k].value = board[RowOf(k)][ColOf(k)]

\* The deducer has assigned a cell and the search has placed a value and
\* undone it, in a row that holds a given.
C11_Witness ==
    /\ pc = "search"
    /\ STop.placed > 0
    /\ LET u == unknown_cells[STop.index]
       IN  /\ cells[u].value = 0
           /\ \E k \in Range(RowCells[RowOf(u)]) : board[RowOf(k)][ColOf(k)] # 0
    /\ \E k \in 1..Len(cells) :
          board[RowOf(k)][ColOf(k)] = 0 /\ cells[k].value # 0

====
